---- MODULE Spec2Model ----
(***************************************************************************)
(* HelpBox: the tool-registry manager tools/toolbox.py and the menu        *)
(* tools/hakd.py.                                                          *)
(*                                                                         *)
(* Strings are sequences of tokens.  A token is one character class or one *)
(* word of ordinary text: " " is a whitespace character, "{" and "}" are   *)
(* braces, "NL" is a line feed, "FF" a form feed, every other token is    *)
(* text without whitespace, braces, line feeds or form feeds.              *)
(***************************************************************************)
EXTENDS Integers, Sequences, FiniteSets, TLC

VARIABLES
    candidates,   \* pick_available_command: the candidate list passed in
    path_execs,   \* names shutil.which resolves on PATH
    picked,       \* pick_available_command: <<>> before the call, <<result>> after
    PATH,         \* os.environ["PATH"], a string with ":" as os.pathsep
    dirs,         \* the paths for which os.path.isdir is true
    report,       \* path_doctor: <<>> before the call, <<lists printed>> after
    rc,           \* the shell resource file: [exists, content]
    backups,      \* the contents of the backup files made so far, oldest first
    calls,        \* the setup_shell calls made so far, oldest first
    args,         \* toolbox main: the parsed command line
    ctx,          \* toolbox main: the Context built from the flags
    registry,     \* toolbox main: the tools load_registry returns
    os_env,       \* toolbox main: [wsl, root] as detect_wsl and os.geteuid see them
    trace,        \* toolbox main: what the invocation has done, in order
    result,       \* toolbox main: <<>> while running, <<[exc, ret]>> at its end
    hakd,         \* the hakd menu process: where it is, its registry, what it has done
    fmt           \* format_command: the template and the results of rendering it

varsPick == <<candidates, picked>>
varsPath == <<PATH, dirs, report>>
varsShell == <<rc, backups, calls>>
varsMain == <<args, ctx, registry, os_env, trace, result>>
vars == <<candidates, path_execs, picked, PATH, dirs, report, rc, backups, calls,
          args, ctx, registry, os_env, trace, result, hakd, fmt>>

----------------------------------------------------------------------------
(* Bounds *)

MaxCandidates == 3
MaxPathEntries == 4
MaxContentLen == 3
MaxCalls == 2
MaxTools == 2
MaxExit == 2
MaxEntries == 3
MaxRounds == 2
MaxTemplateLen == 4

----------------------------------------------------------------------------
(* Generic helpers *)

BoundedSeq(S, n) == UNION {[1..k -> S] : k \in 0..n}

Range(s) == {s[i] : i \in 1..Len(s)}

\* Python: sub in s, for strings
Contains(s, sub) ==
    \E i \in 0..(Len(s) - Len(sub)) : SubSeq(s, i + 1, i + Len(sub)) = sub

\* Python results: a returned value or a raised exception
Ret(v) == [exc |-> "none", value |-> v]
Raise(e) == [exc |-> e, value |-> <<>>]

\* Optional[str]: None is <<>>, a string s is <<s>>
None == <<>>
Some(s) == <<s>>

\* The parts of the state a component does not use
IdlePick == candidates = <<>> /\ picked = <<>>
IdlePath == PATH = <<>> /\ dirs = {} /\ report = <<>>
IdleShell == rc = [exists |-> FALSE, content |-> <<>>] /\ backups = <<>> /\ calls = <<>>
IdleMain ==
    /\ args = <<>> /\ ctx = <<>> /\ registry = <<>> /\ os_env = <<>>
    /\ trace = <<>> /\ result = <<>>
IdleHakd == hakd = <<>>
IdleFormat == fmt = <<>>

----------------------------------------------------------------------------
(* str.split(): the whitespace-delimited words of a string *)

RECURSIVE SkipSpaces(_)
SkipSpaces(s) ==
    IF s # <<>> /\ Head(s) = " " THEN SkipSpaces(Tail(s)) ELSE s

RECURSIVE TakeWord(_)
TakeWord(s) ==
    IF s = <<>> \/ Head(s) = " " THEN <<>> ELSE <<Head(s)>> \o TakeWord(Tail(s))

RECURSIVE split(_)
split(s) ==
    LET r == SkipSpaces(s) IN
    IF r = <<>> THEN <<>>
    ELSE LET w == TakeWord(r) IN <<w>> \o split(SubSeq(r, Len(w) + 1, Len(r)))

\* shutil.which(name): truthy iff name resolves to an executable on PATH
which(name, execs) == name \in execs

----------------------------------------------------------------------------
(* pick_available_command *)

\* mutant: keeps scanning and returns the last resolvable candidate
RECURSIVE pick_last_available(_, _)
pick_last_available(cands, execs) ==
    IF cands = <<>> THEN Ret(None)
    ELSE LET candidate == cands[Len(cands)]
             words == split(candidate)
         IN  IF words = <<>> THEN Raise("IndexError")
             ELSE IF which(words[1], execs) THEN Ret(Some(candidate))
             ELSE pick_last_available(SubSeq(cands, 1, Len(cands) - 1), execs)

RECURSIVE pick_available_command(_, _)
pick_available_command(cands, execs) ==
    IF cands = <<>> THEN Ret(None)
    ELSE LET candidate == Head(cands)
             words == split(candidate)
         IN  IF words = <<>> THEN Raise("IndexError")
             ELSE IF which(words[1], execs) THEN Ret(Some(candidate))
             ELSE pick_available_command(Tail(cands), execs)

\* The candidate strings the resolver is applied to: the traceroute candidates
\* of net_trace, and variants with leading whitespace, no arguments, and a
\* leading word that merely starts with an executable's name.
CandidateStrings ==
    { <<"mtr", " ", "-rw", " ", "host">>,
      <<"traceroute", " ", "host">>,
      <<"tracepath", " ", "host">>,
      <<" ", "mtr">>,
      <<"tracepath">>,
      <<"mtr", "x", " ", "host">> }

PickExecutables == {<<"mtr">>, <<"traceroute">>, <<"tracepath">>}

InitPick ==
    /\ candidates \in BoundedSeq(CandidateStrings, MaxCandidates)
    /\ path_execs \in SUBSET PickExecutables
    /\ picked = <<>>
    /\ IdlePath /\ IdleShell /\ IdleMain /\ IdleHakd /\ IdleFormat

Pick ==
    /\ picked = <<>>
    /\ picked' = <<pick_available_command(candidates, path_execs)>>
    /\ UNCHANGED <<candidates, path_execs>>
    /\ UNCHANGED <<varsPath, varsShell, varsMain, hakd, fmt>>

NextPick == Pick

SpecPick == InitPick /\ [][NextPick]_vars

----------------------------------------------------------------------------
(* C2 *)

\* The leading whitespace-delimited token of a string, read off by position
LeadingToken(s) ==
    LET starts == {i \in 1..Len(s) : s[i] # " "}
    IN  IF starts = {} THEN <<>>
        ELSE LET a == CHOOSE i \in starts : \A j \in starts : i <= j
                 ends == {i \in a..Len(s) : i = Len(s) \/ s[i + 1] = " "}
                 b == CHOOSE i \in ends : \A j \in ends : i <= j
             IN  SubSeq(s, a, b)

Resolves(i) == LeadingToken(candidates[i]) \in path_execs

\* C2: pick_available_command returns the earliest candidate in list order
\* whose leading whitespace-delimited token resolves on PATH, never a later
\* one, and returns None when no candidate's executable resolves.
C2_FirstResolvable ==
    picked # <<>> =>
        LET r == picked[1]
            hits == {i \in 1..Len(candidates) : Resolves(i)}
        IN  /\ r.exc = "none"
            /\ hits = {} => r.value = None
            /\ hits # {} =>
                 \E i \in hits :
                    /\ \A j \in hits : i <= j
                    /\ r.value = Some(candidates[i])

\* C2 witness: the first candidate does not resolve, two later ones do, and
\* the earlier of those two was returned.
C2_Witness ==
    /\ picked # <<>>
    /\ Len(candidates) = 3
    /\ ~Resolves(1) /\ Resolves(2) /\ Resolves(3)
    /\ candidates[2] # candidates[3]
    /\ picked[1].value = Some(candidates[2])

----------------------------------------------------------------------------
(* path_doctor *)

pathsep == ":"

\* str.split(sep): the segments between separators, empty ones included
RECURSIVE split_on(_, _)
split_on(s, sep) ==
    LET seps == {i \in 1..Len(s) : s[i] = sep} IN
    IF seps = {} THEN <<s>>
    ELSE LET i == CHOOSE k \in seps : \A j \in seps : k <= j
         IN  <<SubSeq(s, 1, i - 1)>> \o split_on(SubSeq(s, i + 1, Len(s)), sep)

\* sep.join(parts)
RECURSIVE join(_, _)
join(sep, parts) ==
    IF parts = <<>> THEN <<>>
    ELSE IF Len(parts) = 1 THEN parts[1]
    ELSE parts[1] \o <<sep>> \o join(sep, Tail(parts))

\* The environment the expansions read: HOME, and one defined variable $V
HOME == <<"/h">>
EnvV == <<"/y">>

StartsWithSlash(tok) == tok \in {"/h", "/y", "/z"}

\* os.path.expanduser: a leading "~" alone or before "/" becomes HOME; "~name"
\* for a user the host does not know is left as it is
expanduser(p) ==
    IF p # <<>> /\ Head(p) = "~" /\ (Len(p) = 1 \/ StartsWithSlash(p[2]))
    THEN HOME \o Tail(p)
    ELSE p

\* os.path.expandvars: "$V" becomes the value of V
RECURSIVE expandvars(_)
expandvars(p) ==
    IF p = <<>> THEN <<>>
    ELSE (IF Head(p) = "$V" THEN EnvV ELSE <<Head(p)>>) \o expandvars(Tail(p))

normalize_path_entry(entry) == expandvars(expanduser(entry))

isdir(p, dirset) == p \in dirset

\* list(dict.fromkeys(xs)): first occurrences, in order
RECURSIVE dict_fromkeys(_)
dict_fromkeys(xs) ==
    IF xs = <<>> THEN <<>>
    ELSE LET front == dict_fromkeys(SubSeq(xs, 1, Len(xs) - 1))
             x == xs[Len(xs)]
         IN  IF x \in Range(front) THEN front ELSE Append(front, x)

\* mutant: records an entry as a duplicate at every repeat
RepeatIsDuplicate(count) == count >= 2

\* the test that records an entry as a duplicate
IsSecondOccurrence(count) == count = 2

missing_unique(missing) == dict_fromkeys(missing)

\* the loop over raw_entries
RECURSIVE path_scan(_, _, _, _, _)
path_scan(entries, dirset, seen, duplicates, missing) ==
    IF entries = <<>> THEN [duplicates |-> duplicates, missing |-> missing]
    ELSE LET normalized == normalize_path_entry(Head(entries))
             count == (IF normalized \in DOMAIN seen THEN seen[normalized] ELSE 0) + 1
             seen2 == [k \in DOMAIN seen \cup {normalized} |->
                          IF k = normalized THEN count ELSE seen[k]]
             dup2 == IF IsSecondOccurrence(count)
                     THEN Append(duplicates, normalized) ELSE duplicates
             miss2 == IF ~isdir(normalized, dirset)
                      THEN Append(missing, normalized) ELSE missing
         IN  path_scan(Tail(entries), dirset, seen2, dup2, miss2)

\* path_doctor: the two lists it prints
path_doctor(path, dirset) ==
    LET raw_entries == SelectSeq(split_on(path, pathsep), LAMBDA e : e # <<>>)
        lists == path_scan(raw_entries, dirset, <<>>, <<>>, <<>>)
    IN  [duplicates |-> lists.duplicates, missing |-> missing_unique(lists.missing)]

\* PATH segments: empty, "~", "$V", and three plain directories
PathSegments == {<<>>, <<"~">>, <<"$V">>, <<"/h">>, <<"/y">>, <<"/z">>}

PathDirs == {<<"/h">>, <<"/y">>, <<"/z">>}

InitPath ==
    /\ \E segs \in BoundedSeq(PathSegments, MaxPathEntries) : PATH = join(pathsep, segs)
    /\ dirs \in SUBSET PathDirs
    /\ report = <<>>
    /\ path_execs = {}
    /\ IdlePick /\ IdleShell /\ IdleMain /\ IdleHakd /\ IdleFormat

PathDoctor ==
    /\ report = <<>>
    /\ report' = <<path_doctor(PATH, dirs)>>
    /\ UNCHANGED <<PATH, dirs>>
    /\ UNCHANGED <<path_execs, varsPick, varsShell, varsMain, hakd, fmt>>

NextPath == PathDoctor

SpecPath == InitPath /\ [][NextPath]_vars

----------------------------------------------------------------------------
(* C8 *)

\* The segments of a PATH value, read off by the positions of the separators
SegmentsOf(path) ==
    LET seps == {0, Len(path) + 1} \cup {i \in 1..Len(path) : path[i] = pathsep}
        nth == [k \in 1..Cardinality(seps) |->
                   CHOOSE p \in seps : Cardinality({q \in seps : q < p}) = k - 1]
    IN  [k \in 1..(Cardinality(seps) - 1) |-> SubSeq(path, nth[k] + 1, nth[k + 1] - 1)]

\* The normalized forms of the non-empty segments, in PATH order
NormalizedOf(path) ==
    LET all == SegmentsOf(path)
        kept == {k \in DOMAIN all : all[k] # <<>>}
        nth == [n \in 1..Cardinality(kept) |->
                   CHOOSE k \in kept : Cardinality({j \in kept : j < k}) = n - 1]
    IN  [n \in 1..Cardinality(kept) |-> normalize_path_entry(all[nth[n]])]

Occurrences(N, v) == {i \in DOMAIN N : N[i] = v}

FirstOcc(N, v) ==
    CHOOSE i \in Occurrences(N, v) : \A j \in Occurrences(N, v) : i <= j

SecondOcc(N, v) ==
    CHOOSE i \in Occurrences(N, v) : Cardinality({j \in Occurrences(N, v) : j < i}) = 1

NoRepeats(xs) == \A i, j \in DOMAIN xs : xs[i] = xs[j] => i = j

\* C8: duplicates holds each normalized entry that occurs two or more times
\* exactly once, in order of second occurrence; the missing list holds each
\* normalized entry that is no existing directory exactly once, in order of
\* first occurrence; the lists are independent, empty segments are ignored.
C8_PathReport ==
    report # <<>> =>
        LET d == report[1].duplicates
            m == report[1].missing
            N == NormalizedOf(PATH)
        IN  /\ NoRepeats(d)
            /\ Range(d) = {v \in Range(N) : Cardinality(Occurrences(N, v)) >= 2}
            /\ \A i, j \in DOMAIN d : i < j => SecondOcc(N, d[i]) < SecondOcc(N, d[j])
            /\ NoRepeats(m)
            /\ Range(m) = {v \in Range(N) : v \notin dirs}
            /\ \A i, j \in DOMAIN m : i < j => FirstOcc(N, m[i]) < FirstOcc(N, m[j])

\* C8 witness: two duplicated entries listed in order of second occurrence
\* (the reverse of their first occurrences), one of them also missing, and
\* one duplicate arising only after normalization.
C8_Witness ==
    /\ report # <<>>
    /\ Len(report[1].duplicates) = 2
    /\ LET N == NormalizedOf(PATH)
       IN  FirstOcc(N, report[1].duplicates[2]) < FirstOcc(N, report[1].duplicates[1])
    /\ report[1].duplicates[1] \in Range(report[1].missing)
    /\ <<"~">> \in Range(SegmentsOf(PATH))

\* An entry occurs three times and is listed once; PATH has an empty segment
C8_ThirdOccurrence ==
    /\ report # <<>>
    /\ LET N == NormalizedOf(PATH)
       IN  \E v \in Range(N) : Cardinality(Occurrences(N, v)) = 3
    /\ <<>> \in Range(SegmentsOf(PATH))
    /\ Len(report[1].duplicates) = 1

----------------------------------------------------------------------------
(* setup_shell *)

\* argparse choices of setup --theme
Themes == {"minimal", "vivid", "high-contrast"}

\* source_line: the text  source "<ROOT>/shell/init.sh" --theme <theme>  is one
\* token of file content; it contains the script path "shell/init.sh"
source_line(theme) == <<"source init.sh --theme " \o theme>>

SourceTokens == {source_line(t)[1] : t \in Themes}

\* File content: source lines, other text "x", line feeds "NL", and "FF", a
\* form feed (or any other character that str.splitlines takes for a line
\* boundary though it is no line feed)
ContentTokens == SourceTokens \cup {"x", "NL", "FF"}

\* the characters str.splitlines splits at
LineBoundaries == {"NL", "FF"}

\* the lines of a content delimited by line feeds only; a final line feed
\* opens no further line
lines_by_line_feed(content) ==
    LET parts == split_on(content, "NL")
    IN  IF parts[Len(parts)] = <<>> THEN SubSeq(parts, 1, Len(parts) - 1) ELSE parts

\* str.splitlines(): the lines without their boundary characters; a final
\* boundary opens no further line
splitlines(content) ==
    lines_by_line_feed([i \in 1..Len(content) |->
                           IF content[i] \in LineBoundaries THEN "NL" ELSE content[i]])

endswith_newline(content) == content # <<>> /\ content[Len(content)] = "NL"

\* mutant: no line is taken to reference the script
references_nothing(line) == FALSE

\* "shell/init.sh" in line
references_init(line) == \E i \in 1..Len(line) : line[i] \in SourceTokens

\* mutant: the presence test always fails
never_present(content, line) == FALSE

\* source_line in content
already_present(content, line) == Contains(content, line)

\* the loop over content.splitlines(): (updated_lines, replaced)
RECURSIVE replace_lines(_, _)
replace_lines(lines, src) ==
    IF lines = <<>> THEN [lines |-> <<>>, replaced |-> FALSE]
    ELSE LET rest == replace_lines(Tail(lines), src)
         IN  IF references_init(Head(lines))
             THEN [lines |-> <<src>> \o rest.lines, replaced |-> TRUE]
             ELSE [lines |-> <<Head(lines)>> \o rest.lines, replaced |-> rest.replaced]

\* mutant: an empty line is added after any non-empty content
separator_if_nonempty(content) == content # <<>>

\* if content and not content.endswith("\n"): the test for adding an empty
\* line before the source line
needs_separator(content) == content # <<>> /\ ~endswith_newline(content)

\* updated_lines as written to the file
updated_lines(content, src) ==
    LET scan == replace_lines(splitlines(content), src)
        appended == IF scan.replaced THEN scan.lines
                    ELSE (IF needs_separator(content)
                          THEN Append(scan.lines, <<>>) ELSE scan.lines)
                         \o <<src>>
    IN  IF appended # <<>> THEN Append(appended, <<>>) ELSE appended

\* A call in progress: the file system it sees, the operations it has done on
\* it in order, and the exception it has raised
\* backup_file: copies an existing file to a new backup file; a failed copy
\* raises OSError.  Backup names carry a timestamp; each backup is a new file.
backup_file(m, copy_ok) ==
    IF m.exc # "none" \/ ~m.exists THEN m
    ELSE IF copy_ok
         THEN [m EXCEPT !.backups = Append(@, m.content), !.ops = Append(@, "backup")]
         ELSE [m EXCEPT !.exc = "OSError", !.ops = Append(@, "backup_failed")]

\* rc_path.parent.mkdir; rc_path.write_text
write_text(m, text) ==
    IF m.exc # "none" THEN m
    ELSE [m EXCEPT !.exists = TRUE, !.content = text, !.ops = Append(@, "write")]

\* mutant: the file is written first and backed up afterwards
write_then_backup(m, text, copy_ok) == backup_file(write_text(m, text), copy_ok)

\* lines 483-485: backup, then write
backup_then_write(m, text, copy_ok) == write_text(backup_file(m, copy_ok), text)

setup_shell(file, saved, theme, copy_ok) ==
    LET src == source_line(theme)
        content == IF file.exists THEN file.content ELSE <<>>
        m0 == [exists |-> file.exists, content |-> file.content, backups |-> saved,
               ops |-> IF file.exists THEN <<"read">> ELSE <<>>, exc |-> "none"]
    IN  IF file.exists /\ already_present(content, src)
        THEN [m0 EXCEPT !.ops = Append(@, "already_present")]
        ELSE backup_then_write(m0, join("NL", updated_lines(content, src)), copy_ok)

InitShell ==
    /\ \/ rc = [exists |-> FALSE, content |-> <<>>]
       \/ \E c \in BoundedSeq(ContentTokens, MaxContentLen) :
             rc = [exists |-> TRUE, content |-> c]
    /\ backups = <<>>
    /\ calls = <<>>
    /\ path_execs = {}
    /\ IdlePick /\ IdlePath /\ IdleMain /\ IdleHakd /\ IdleFormat

SetupShell ==
    /\ Len(calls) < MaxCalls
    /\ \E theme \in Themes, copy_ok \in BOOLEAN :
          LET m == setup_shell(rc, backups, theme, copy_ok)
          IN  /\ rc' = [exists |-> m.exists, content |-> m.content]
              /\ backups' = m.backups
              /\ calls' = Append(calls, [theme |-> theme, before |-> rc, after |-> rc',
                                         ops |-> m.ops, exc |-> m.exc])
    /\ UNCHANGED <<path_execs, varsPick, varsPath, varsMain, hakd, fmt>>

NextShell == SetupShell

SpecShell == InitShell /\ [][NextShell]_vars

----------------------------------------------------------------------------
(* C3, C4, C5 *)

\* The lines of a file that reference the integration script
IntegrationLines(file) ==
    LET lines == IF file.exists THEN splitlines(file.content) ELSE <<>>
    IN  {i \in 1..Len(lines) : \E k \in 1..Len(lines[i]) : lines[i][k] \in SourceTokens}

LineOf(file, i) == splitlines(file.content)[i]

Count(ops, op) == Cardinality({i \in 1..Len(ops) : ops[i] = op})

\* two calls in a row with the same theme, both returning
SameThemeTwice(i) ==
    /\ i + 1 <= Len(calls)
    /\ calls[i].theme = calls[i + 1].theme
    /\ calls[i].exc = "none" /\ calls[i + 1].exc = "none"

\* C3 as stated: for any initial content, two calls in a row with the same
\* theme leave exactly one integration line after each call, and the second
\* call writes nothing and makes no backup.
C3_AnyContent ==
    \A i \in 1..Len(calls) :
        SameThemeTwice(i) =>
            /\ Cardinality(IntegrationLines(calls[i].after)) = 1
            /\ Cardinality(IntegrationLines(calls[i + 1].after)) = 1
            /\ Count(calls[i + 1].ops, "write") = 0
            /\ Count(calls[i + 1].ops, "backup") = 0

\* C3 amended: for any initial content the second of two calls in a row with
\* the same theme writes nothing and makes no backup; when the file was
\* absent or had at most one line referencing the integration script, it has
\* exactly one integration line after each of the two calls.
C3_Idempotent ==
    \A i \in 1..Len(calls) :
        SameThemeTwice(i) =>
            /\ Count(calls[i + 1].ops, "write") = 0
            /\ Count(calls[i + 1].ops, "backup") = 0
            /\ calls[i + 1].after = calls[i].after
            /\ Cardinality(IntegrationLines(calls[i].before)) <= 1 =>
                  /\ Cardinality(IntegrationLines(calls[i].after)) = 1
                  /\ Cardinality(IntegrationLines(calls[i + 1].after)) = 1

\* C3 witness: the first call rewrote an existing file that had a line for
\* another theme, the second call with the same theme has returned.
C3_Witness ==
    /\ Len(calls) = 2
    /\ SameThemeTwice(1)
    /\ calls[1].before.exists
    /\ Cardinality(IntegrationLines(calls[1].before)) = 1
    /\ Count(calls[1].ops, "write") = 1
    /\ Count(calls[1].ops, "backup") = 1

\* a line referencing the script that does not hold the requested source line
StaleLine(file, i, theme) ==
    /\ i \in IntegrationLines(file)
    /\ ~Contains(LineOf(file, i), source_line(theme))

Replaced(c) ==
    /\ Cardinality(IntegrationLines(c.after)) = 1
    /\ \A i \in IntegrationLines(c.after) : LineOf(c.after, i) = source_line(c.theme)
    /\ Count(c.ops, "backup") = 1

\* C4 as stated: whenever the file holds a line referencing the script for a
\* theme other than the requested one, after the call it holds exactly one
\* line referencing the script, that line names the requested theme, and the
\* call made exactly one backup.
C4_AnyPriorLine ==
    \A n \in 1..Len(calls) :
        LET c == calls[n] IN
        (c.exc = "none" /\ \E i \in IntegrationLines(c.before) : StaleLine(c.before, i, c.theme))
            => Replaced(c)

\* C4 amended: whenever the file holds exactly one line referencing the
\* script and that line is for a theme other than the requested one, after
\* the call returns the file holds exactly one line referencing the script,
\* that line is the requested source line, and the call made exactly one
\* backup.
C4_ReplacesSingleLine ==
    \A n \in 1..Len(calls) :
        LET c == calls[n] IN
        (/\ c.exc = "none"
         /\ Cardinality(IntegrationLines(c.before)) = 1
         /\ \A i \in IntegrationLines(c.before) : StaleLine(c.before, i, c.theme))
            => Replaced(c)

\* C4 witness: a file whose only integration line, between other lines, was
\* for another theme has been rewritten.
C4_Witness ==
    /\ Len(calls) = 1
    /\ calls[1].exc = "none"
    /\ Cardinality(IntegrationLines(calls[1].before)) = 1
    /\ \A i \in IntegrationLines(calls[1].before) : StaleLine(calls[1].before, i, calls[1].theme)
    /\ Len(splitlines(calls[1].before.content)) >= 2
    /\ Count(calls[1].ops, "write") = 1

Index(ops, op) == CHOOSE i \in 1..Len(ops) : ops[i] = op

\* C5: whenever the file existed before the call and is rewritten, the backup
\* copy (of the previous content) is completed before the write; if the
\* backup copy fails the file is not written and keeps its previous content.
C5_BackupBeforeWrite ==
    \A n \in 1..Len(calls) :
        LET c == calls[n] IN
        /\ (c.before.exists /\ Count(c.ops, "write") > 0) =>
              /\ Count(c.ops, "backup") = 1
              /\ Index(c.ops, "backup") < Index(c.ops, "write")
              /\ n = Len(calls) => backups[Len(backups)] = c.before.content
        /\ Count(c.ops, "backup_failed") > 0 =>
              /\ Count(c.ops, "write") = 0
              /\ c.after = c.before
              /\ c.exc = "OSError"

\* C5 witness: one call backed up and rewrote an existing file, a later call
\* had its backup copy fail.
C5_Witness ==
    /\ Len(calls) = 2
    /\ calls[1].before.exists
    /\ Count(calls[1].ops, "write") = 1
    /\ Count(calls[2].ops, "backup_failed") = 1

----------------------------------------------------------------------------
(* C14 *)

LinesOf(file) == IF file.exists THEN splitlines(file.content) ELSE <<>>

ContentOf(file) == IF file.exists THEN file.content ELSE <<>>

\* the call found no line referencing the script and wrote the file
Appended(c) ==
    /\ c.exc = "none"
    /\ IntegrationLines(c.before) = {}
    /\ Count(c.ops, "write") = 1

\* the rewritten file is the previous lines, one blank line, the source line
WithSeparator(c) ==
    LET B == LinesOf(c.before)
        A == LinesOf(c.after)
    IN  A = B \o << <<>>, source_line(c.theme) >>

\* the rewritten file is the previous lines and the source line
WithoutSeparator(c) ==
    LinesOf(c.after) = Append(LinesOf(c.before), source_line(c.theme))

\* the last line of the content is blank
EndsWithBlankLine(content) ==
    LET B == splitlines(content) IN B # <<>> /\ B[Len(B)] = <<>>

\* C14 as stated: when the source line is appended, a blank line is inserted
\* before it if and only if the previous content is non-empty and its last
\* line is not blank; for an absent or empty file none is inserted.
C14_UnlessBlankLine ==
    \A n \in 1..Len(calls) :
        LET c == calls[n]
            content == ContentOf(c.before)
        IN  Appended(c) =>
                IF content # <<>> /\ ~EndsWithBlankLine(content)
                THEN WithSeparator(c) ELSE WithoutSeparator(c)

\* C14 amended: when the source line is appended, a blank line is inserted
\* before it if and only if the previous content is non-empty and does not
\* end with a line feed; for an absent or empty file, and for a file whose
\* last line is terminated (blank or not), the source line directly follows
\* the previous lines.
C14_UnlessTerminated ==
    \A n \in 1..Len(calls) :
        LET c == calls[n]
            content == ContentOf(c.before)
        IN  Appended(c) =>
                IF content # <<>> /\ content[Len(content)] # "NL"
                THEN WithSeparator(c) ELSE WithoutSeparator(c)

\* C14 witness: the source line has been appended, after a blank line, to a
\* file of two lines the last of which was not terminated.
C14_Witness ==
    /\ Len(calls) >= 1
    /\ Appended(calls[1])
    /\ Len(LinesOf(calls[1].before)) = 2
    /\ WithSeparator(calls[1])
    /\ ~WithoutSeparator(calls[1])

\* C14: the source line has been appended with no blank line to a file whose
\* last line was terminated and not blank
C14_TerminatedLastLine ==
    /\ Len(calls) >= 1
    /\ Appended(calls[1])
    /\ calls[1].before.content = <<"x", "NL">>
    /\ calls[1].after.content = <<"x", "NL">> \o source_line(calls[1].theme) \o <<"NL">>

----------------------------------------------------------------------------
(* C15 *)

\* the lines of a file as a shell reads them
FileLines(file) == IF file.exists THEN lines_by_line_feed(file.content) ELSE <<>>

ReferencesScript(line) == \E k \in 1..Len(line) : line[k] \in SourceTokens

RECURSIVE IsSubsequence(_, _)
IsSubsequence(u, v) ==
    IF u = <<>> THEN TRUE
    ELSE IF v = <<>> THEN FALSE
    ELSE IF Head(u) = Head(v) THEN IsSubsequence(Tail(u), Tail(v))
    ELSE IsSubsequence(u, Tail(v))

Rewrote(c) == c.exc = "none" /\ Count(c.ops, "write") = 1

\* the lines B of the file before a call and A after it: every line of B
\* that does not reference the script is in A, in the same order; a line of B
\* that references it has the source line at its position in A; with no such
\* line in B the source line is the last line of A
KeptIn(B, A, src) ==
    LET R == {i \in 1..Len(B) : ReferencesScript(B[i])}
    IN  /\ IsSubsequence(SelectSeq(B, LAMBDA line : ~ReferencesScript(line)), A)
        /\ \A i \in R : i <= Len(A) /\ A[i] = src
        /\ R = {} => A # <<>> /\ A[Len(A)] = src /\ SubSeq(A, 1, Len(B)) = B

\* C15: in every call that rewrites the file, every line of the previous file
\* that does not reference the script is kept with the same content and in
\* the same relative order; a replaced line keeps its position, an appended
\* one comes after all previous lines.
C15_OtherLinesKept ==
    \A n \in 1..Len(calls) :
        Rewrote(calls[n]) =>
            KeptIn(FileLines(calls[n].before), FileLines(calls[n].after),
                   source_line(calls[n].theme))

\* what the code keeps of C15: the same, for the lines str.splitlines makes
\* of the previous content
SplitLinesKept ==
    \A n \in 1..Len(calls) :
        Rewrote(calls[n]) =>
            KeptIn(LinesOf(calls[n].before), LinesOf(calls[n].after),
                   source_line(calls[n].theme))

\* a line holding a form feed has been rewritten as two lines
FormFeedLineSplit ==
    /\ Len(calls) >= 1
    /\ Rewrote(calls[1])
    /\ calls[1].before.content = <<"x", "FF", "x">>
    /\ calls[1].after.content =
          <<"x", "NL", "x", "NL", "NL">> \o source_line(calls[1].theme) \o <<"NL">>

----------------------------------------------------------------------------
(* toolbox main: rendering, logging, the command runner *)

\* str.format(prefix=...) on a template: "{prefix}" is replaced, "{{" and "}}"
\* are the escapes of "{" and "}", any other use of a brace raises
RECURSIVE format_from(_, _, _)
format_from(t, prefix, out) ==
    IF t = <<>> THEN Ret(out)
    ELSE IF Head(t) = "{"
    THEN IF Len(t) >= 2 /\ t[2] = "{"
         THEN format_from(SubSeq(t, 3, Len(t)), prefix, Append(out, "{"))
         ELSE LET stops == {j \in 2..Len(t) : t[j] \in {"{", "}"}} IN
              IF stops = {} THEN Raise("ValueError")
              ELSE LET j == CHOOSE k \in stops : \A l \in stops : k <= l
                       field == SubSeq(t, 2, j - 1)
                   IN  IF t[j] = "{" THEN Raise("ValueError")
                       ELSE IF field = <<"prefix">>
                       THEN format_from(SubSeq(t, j + 1, Len(t)), prefix, out \o prefix)
                       ELSE IF field = <<>> THEN Raise("IndexError")
                       ELSE Raise("KeyError")
    ELSE IF Head(t) = "}"
    THEN IF Len(t) >= 2 /\ t[2] = "}"
         THEN format_from(SubSeq(t, 3, Len(t)), prefix, Append(out, "}"))
         ELSE Raise("ValueError")
    ELSE format_from(Tail(t), prefix, Append(out, Head(t)))

format_command(command, c) == format_from(command, c.prefix, <<>>)

\* One thing an invocation did: a line logged or printed, a prompt answered,
\* a process spawned (or not launched), a runner call returning or raising
Event(ev, what, text, code) == [ev |-> ev, what |-> what, text |-> text, code |-> code]

\* An invocation in progress: its trace, the exception in flight with its
\* message, the value last returned
Start == [trace |-> <<>>, exc |-> "none", msg |-> <<>>, ret |-> 0]

Emit(m, e) == [m EXCEPT !.trace = Append(@, e)]

\* log_info, log_warn, log_error, log_reason, print
Log(m, level, text) == Emit(m, Event("log", level, text, 0))

\* explain: prints only under --explain
explain(m, c, text) == IF c.explain THEN Log(m, "explain", text) ELSE m

Returned(m, fn, v) == [Emit(m, Event("return", fn, <<>>, v)) EXCEPT !.ret = v]

Raised(m, fn, e, text) ==
    [Emit(m, Event("raise", fn, <<e>>, 0)) EXCEPT !.exc = e, !.msg = text]

\* What subprocess.call can do: the command runs and exits with a status, the
\* shell cannot be launched (OSError), or the operator interrupts the wait
\* (KeyboardInterrupt)
Exited(code) == [kind |-> "exit", code |-> code]
LaunchFailed == [kind |-> "OSError", code |-> 0]
InterruptedCall == [kind |-> "KeyboardInterrupt", code |-> 0]
ExitCodes == 0..MaxExit
SpawnOutcomes == {Exited(n) : n \in ExitCodes} \cup {LaunchFailed, InterruptedCall}

\* mutant: the exit status is dropped
returncode_dropped(outcome) == 0

\* the value subprocess.call returns
returncode(outcome) == outcome.code

\* KeyboardInterrupt raised in fn: no handler in fn takes it
interrupt(m, fn) ==
    Raised(Emit(m, Event("interrupt", fn, <<>>, 0)), fn, "KeyboardInterrupt", <<>>)

\* try: return subprocess.call(...) except OSError: raise ToolboxError
call_subprocess(m, fn, formatted, outcome) ==
    IF outcome.kind = "exit"
    THEN Returned(Emit(m, Event("spawn", fn, formatted, outcome.code)),
                  fn, returncode(outcome))
    ELSE IF outcome.kind = "OSError"
    THEN Raised(Emit(m, Event("spawn_failed", fn, formatted, 0)),
                fn, "ToolboxError", <<"Failed to run command:", " ">> \o formatted)
    ELSE interrupt(m, fn)

run_command(m, command, c, reason, outcome) ==
    IF m.exc # "none" THEN m
    ELSE LET m1 == explain(m, c, reason)
             f == format_command(command, c)
         IN  IF f.exc # "none" THEN Raised(m1, "run_command", f.exc, command)
             ELSE LET m2 == IF c.verbose \/ c.dry_run
                            THEN Log(m1, "info", <<"$", " ">> \o f.value) ELSE m1
                  IN  IF c.dry_run THEN Returned(m2, "run_command", 0)
                      ELSE call_subprocess(m2, "run_command", f.value, outcome)

run_logged_command(m, command, c, reason, outcome) ==
    IF m.exc # "none" THEN m
    ELSE LET m1 == Log(m, "reason", reason)
             f == format_command(command, c)
         IN  IF f.exc # "none" THEN Raised(m1, "run_logged_command", f.exc, command)
             ELSE LET m2 == Log(m1, "info", <<"$", " ">> \o f.value)
                  IN  IF c.dry_run THEN Returned(m2, "run_logged_command", 0)
                      ELSE call_subprocess(m2, "run_logged_command", f.value, outcome)

\* What input() can do: a line is read, the input has ended (EOFError), or the
\* operator interrupts the prompt (KeyboardInterrupt)
Line(text) == [kind |-> "line", text |-> text]
EndOfInput == [kind |-> "EOF", text |-> <<>>]
InterruptedInput == [kind |-> "KeyboardInterrupt", text |-> <<>>]
Answers ==
    {Line(<<"yes">>), Line(<<" ", "YES", " ">>), Line(<<"y">>), Line(<<"no">>),
     Line(<<>>), EndOfInput, InterruptedInput}

\* str.strip()
RECURSIVE strip_right(_)
strip_right(s) ==
    IF s # <<>> /\ s[Len(s)] = " " THEN strip_right(SubSeq(s, 1, Len(s) - 1)) ELSE s

strip(s) == strip_right(SkipSpaces(s))

\* str.lower()
lower(s) ==
    [i \in 1..Len(s) |->
        CASE s[i] \in {"YES", "Yes"} -> "yes"
          [] s[i] = "Y" -> "y"
          [] s[i] = "U" -> "u"
          [] OTHER -> s[i]]

\* mutant: every line read counts as consent
any_response(response) == TRUE

\* response == "yes"
is_yes(response) == response = <<"yes">>

\* confirm_action: [m, value]; only EOFError is caught
confirm_action(m, c, prompt, answer) ==
    LET m1 == Log(m, "warn", prompt)
        value == IF answer.kind = "EOF" THEN FALSE ELSE is_yes(lower(strip(answer.text)))
    IN  IF answer.kind = "KeyboardInterrupt"
        THEN [m |-> interrupt(m1, "confirm_action"), value |-> FALSE]
        ELSE [m |-> Emit(m1, Event("confirm", answer.kind, answer.text, IF value THEN 1 ELSE 0)),
              value |-> value]

----------------------------------------------------------------------------
(* toolbox main: the registry commands *)

ToolNames == {"nmap", "jq"}

\* Command templates of registry entries: plain text, the prefix placeholder,
\* another placeholder, escaped braces
TemplateBodies ==
    { <<"run">>,
      <<"{", "prefix", "}", "/bin/run">>,
      <<"awk", " ", "{", "print", "}">>,
      <<"echo", " ", "{", "{", "}", "}">> }

\* The Tool records: nmap requires root, jq does not
Tool(n, body) ==
    [name |-> n,
     install |-> <<"install", " ">> \o body,
     update |-> <<"update", " ">> \o body,
     verify |-> <<"verify", " ">> \o body,
     requires_root |-> (n = "nmap")]

Tools == {Tool(n, b) : n \in ToolNames, b \in TemplateBodies}

\* raise ToolboxError(f"Unknown tool: {name}")
UnknownTool(name) == [exc |-> "ToolboxError", value |-> <<"Unknown tool:", " ", name>>]

\* mutant: the first record is returned whatever its name
find_first(tools, name) ==
    IF tools = <<>> THEN UnknownTool(name) ELSE Ret(Head(tools))

RECURSIVE find_tool(_, _)
find_tool(tools, name) ==
    IF tools = <<>> THEN UnknownTool(name)
    ELSE IF Head(tools).name = name THEN Ret(Head(tools))
    ELSE find_tool(Tail(tools), name)

\* main's use of find_tool: the record, or ToolboxError in flight
Lookup(m, r) ==
    IF r.exc = "none" THEN m ELSE Raised(m, "find_tool", r.exc, r.value)

is_installed(tool, execs) == which(<<tool.name>>, execs)

\* ensure_prefix: creates <prefix>/bin and <prefix>/tmp
ensure_prefix(m, c) == Emit(m, Event("mkdir", "ensure_prefix", c.prefix, 0))

root_warning(m, tool, env, what) ==
    IF tool.requires_root /\ ~env.root
    THEN Log(m, "warn", <<tool.name, " ", "may require root privileges for", " ", what>>)
    ELSE m

install_tool(m, tool, c, env, outcome) ==
    run_command(root_warning(ensure_prefix(m, c), tool, env, "install"),
                tool.install, c, <<"Installing", " ", tool.name>>, outcome)

update_tool(m, tool, c, env, outcome) ==
    run_command(root_warning(ensure_prefix(m, c), tool, env, "update"),
                tool.update, c, <<"Updating", " ", tool.name>>, outcome)

verify_tool(m, tool, c, execs, outcome) ==
    LET m1 == IF ~is_installed(tool, execs)
              THEN Log(m, "warn", <<tool.name, " ", "is not installed">>) ELSE m
    IN  run_command(m1, tool.verify, c, <<"Verifying", " ", tool.name>>, outcome)

\* one  print(f"  Install: {format_command(...)}")  of info_tool
print_formatted(m, label, command, c) ==
    IF m.exc # "none" THEN m
    ELSE LET f == format_command(command, c)
         IN  IF f.exc # "none" THEN Raised(m, "info_tool", f.exc, command)
             ELSE Log(m, "print", <<label, " ">> \o f.value)

info_tool(m, tool, c, execs) ==
    LET m1 == Log(m, "print", <<tool.name, " ", "Installed:", " ",
                                IF is_installed(tool, execs) THEN "True" ELSE "False">>)
    IN  print_formatted(
            print_formatted(
                print_formatted(m1, "Install:", tool.install, c),
                "Update:", tool.update, c),
            "Verify:", tool.verify, c)

\* main's  except ToolboxError: log_error; return 1  and its final  return 0;
\* any other exception leaves main uncaught
Finish(m, falls_through) ==
    IF m.exc = "ToolboxError"
    THEN [Log(m, "error", m.msg) EXCEPT !.exc = "none", !.ret = 1]
    ELSE IF m.exc = "none" /\ falls_through THEN [m EXCEPT !.ret = 0]
    ELSE m

Exit(m) == <<[exc |-> m.exc, ret |-> IF m.exc = "none" THEN m.ret ELSE 0]>>

----------------------------------------------------------------------------
(* toolbox main: the net subcommands *)

\* mutant: the warning is logged and 0 is returned
WarnAndSucceed(m, text) == [Log(m, "warn", text) EXCEPT !.ret = 0]

\* return 1 after a warning
WarnAndFail(m, text) == [Log(m, "warn", text) EXCEPT !.ret = 1]

net_ping(m, host, c, outcome) ==
    run_logged_command(
        m, <<"ping", " ", "-c", " ", "4", " ", "-s", " ", "56", " ", "-i", " ", "1.0", " ">> \o host,
        c, <<"Send ICMP echo requests">>, outcome)

TraceCandidates(host) ==
    << <<"mtr", " ", "-rw", " ", "-c", " ", "5", " ">> \o host,
       <<"traceroute", " ">> \o host,
       <<"tracepath", " ">> \o host >>

DnsCandidates(host) ==
    << <<"dig", " ">> \o host \o <<" ", "+short">>,
       <<"nslookup", " ">> \o host,
       <<"getent", " ", "hosts", " ">> \o host >>

SpeedCandidates ==
    << <<"speedtest", " ", "--accept-license", " ", "--accept-gdpr">>,
       <<"speedtest-cli">>,
       <<"fast">> >>

FlushCandidates == << <<"resolvectl">>, <<"systemd-resolve">> >>

\* net_trace, net_dns_test, net_speed: pick a candidate, warn and return 1 when
\* there is none, else run it
run_picked(m, cands, execs, c, missing, reason, outcome) ==
    LET cmd == pick_available_command(cands, execs)
    IN  IF cmd.exc # "none" THEN Raised(m, "pick_available_command", cmd.exc, <<>>)
        ELSE IF cmd.value = None THEN WarnAndFail(m, missing)
        ELSE run_logged_command(m, cmd.value[1], c, reason, outcome)

net_trace(m, host, c, execs, outcome) ==
    run_picked(m, TraceCandidates(host), execs, c,
               <<"No traceroute tool found (mtr, traceroute, or tracepath).">>,
               <<"Trace the network path">>, outcome)

net_dns_test(m, host, c, execs, outcome) ==
    run_picked(m, DnsCandidates(host), execs, c,
               <<"No DNS lookup tool found (dig, nslookup, or getent).">>,
               <<"Query DNS">>, outcome)

net_speed(m, c, execs, outcome) ==
    run_picked(m, SpeedCandidates, execs, c,
               <<"No speed test tool found (speedtest, speedtest-cli, or fast).">>,
               <<"Run a bandwidth test">>, outcome)

\* the value a handler returns when it keeps an earlier call's result
Keep(m, v) == IF m.exc = "none" THEN [m EXCEPT !.ret = v] ELSE m

net_flush_dns(m, c, execs, answer, o1, o2, o3) ==
    LET tool == pick_available_command(FlushCandidates, execs)
    IN  IF tool.value = None
        THEN WarnAndFail(m, <<"No supported DNS cache tool found (resolvectl/systemd-resolve).">>)
        ELSE LET ok == confirm_action(m, c, <<"WARNING: This will flush system DNS caches">>, answer)
             IN  IF ok.m.exc # "none" THEN ok.m
                 ELSE IF ~ok.value THEN WarnAndFail(ok.m, <<"DNS flush canceled.">>)
                 ELSE LET resolvectl == Contains(tool.value[1], <<"resolvectl">>)
                          stats_cmd == IF resolvectl
                                       THEN <<"resolvectl", " ", "statistics">>
                                       ELSE <<"systemd-resolve", " ", "--statistics">>
                          flush_cmd == IF resolvectl
                                       THEN <<"resolvectl", " ", "flush-caches">>
                                       ELSE <<"systemd-resolve", " ", "--flush-caches">>
                          m1 == run_logged_command(ok.m, stats_cmd, c, <<"Show statistics before">>, o1)
                          m2 == run_logged_command(m1, flush_cmd, c, <<"Flush DNS caches">>, o2)
                          m3 == run_logged_command(m2, stats_cmd, c, <<"Show statistics after">>, o3)
                      IN  Keep(m3, m2.ret)

net_restart_network(m, c, env, execs, answer, o1, o2) ==
    IF env.wsl THEN WarnAndFail(m, <<"WSL detected; skipping network restart for safety.">>)
    ELSE LET ok == confirm_action(m, c, <<"WARNING: This will restart system networking services">>, answer)
         IN  IF ok.m.exc # "none" THEN ok.m
             ELSE IF ~ok.value THEN WarnAndFail(ok.m, <<"Network restart canceled.">>)
             ELSE IF which(<<"nmcli">>, execs)
             THEN run_logged_command(
                      run_logged_command(ok.m, <<"nmcli", " ", "networking", " ", "off">>, c,
                                         <<"Disable networking">>, o1),
                      <<"nmcli", " ", "networking", " ", "on">>, c, <<"Re-enable networking">>, o2)
             ELSE IF which(<<"systemctl">>, execs)
             THEN run_logged_command(ok.m, <<"systemctl", " ", "restart", " ", "NetworkManager">>, c,
                                     <<"Restart NetworkManager">>, o1)
             ELSE IF which(<<"service">>, execs)
             THEN run_logged_command(ok.m, <<"service", " ", "network-manager", " ", "restart">>, c,
                                     <<"Restart network-manager">>, o1)
             ELSE WarnAndFail(ok.m, <<"No supported network restart command found.">>)

\* the payload sizes net_mtu_test probes, in order
MtuSizes == <<"1200", "1400", "1472">>

\* the loop of net_mtu_test: stops at the first probe that does not return 0
RECURSIVE mtu_probe(_, _, _, _, _)
mtu_probe(m, host, c, outcomes, i) ==
    IF i > Len(MtuSizes) \/ m.exc # "none" THEN m
    ELSE LET m1 == run_logged_command(
                       m, <<"ping", " ", "-c", " ", "1", " ", "-M", " ", "do", " ", "-s", " ",
                            MtuSizes[i], " ">> \o host,
                       c, <<"Probe MTU using payload size", " ", MtuSizes[i]>>, outcomes[i])
         IN  IF m1.exc = "none" /\ m1.ret # 0 THEN m1
             ELSE mtu_probe(m1, host, c, outcomes, i + 1)

net_mtu_test(m, host, c, answer, outcomes) ==
    LET ok == confirm_action(m, c, <<"This MTU test sends pings with the Don't Fragment flag">>, answer)
    IN  IF ok.m.exc # "none" THEN ok.m
        ELSE IF ~ok.value THEN WarnAndFail(ok.m, <<"MTU test canceled.">>)
        ELSE mtu_probe(ok.m, host, c, outcomes, 1)

----------------------------------------------------------------------------
(* toolbox main: one invocation *)

Prefix == <<"/opt/tools">>

Contexts == [verbose : BOOLEAN, dry_run : BOOLEAN, explain : BOOLEAN, prefix : {Prefix}]

\* args.host: a host name, and one that holds braces
Hosts == {<<"example.org">>, <<"{", "}">>}

RegistryCommands == {"info", "install", "update", "verify"}

NetCommands ==
    {"ping", "trace", "dns-test", "speed", "flush-dns", "restart-network", "mtu-test"}

\* the executables a net subcommand looks up with shutil.which
NetExecutables(nc) ==
    CASE nc = "trace" -> {<<"mtr">>, <<"traceroute">>, <<"tracepath">>}
      [] nc = "dns-test" -> {<<"dig">>, <<"nslookup">>, <<"getent">>}
      [] nc = "speed" -> {<<"speedtest">>, <<"speedtest-cli">>, <<"fast">>}
      [] nc = "flush-dns" -> {<<"resolvectl">>, <<"systemd-resolve">>}
      [] nc = "restart-network" -> {<<"nmcli">>, <<"systemctl">>, <<"service">>}
      [] OTHER -> {}

Args(command, nc, tool, host) ==
    [command |-> command, net_command |-> nc, tool |-> tool, host |-> host]

\* parse_args, build_context, load_registry: the inputs of one invocation
InitMain ==
    /\ ctx \in Contexts
    /\ \/ /\ \E cmd \in RegistryCommands, t \in ToolNames \cup {"ghost"} :
                args = Args(cmd, "", t, <<>>)
          /\ registry \in BoundedSeq(Tools, MaxTools)
          /\ \E root \in BOOLEAN :
                /\ os_env = [wsl |-> FALSE, root |-> root]
                /\ args.command \in {"info", "verify"} => ~root
          /\ path_execs \in SUBSET {<<"jq">>}
          /\ args.command \in {"install", "update"} => path_execs = {}
       \/ /\ \E nc \in NetCommands, h \in Hosts \cup {<<>>} :
                /\ args = Args("net", nc, "", h)
                /\ nc \in {"speed", "flush-dns", "restart-network"} <=> h = <<>>
          /\ registry = <<>>
          /\ \E wsl \in BOOLEAN :
                /\ os_env = [wsl |-> wsl, root |-> FALSE]
                /\ args.net_command # "restart-network" => ~wsl
          /\ path_execs \in SUBSET NetExecutables(args.net_command)
    /\ trace = <<>>
    /\ result = <<>>
    /\ IdlePick /\ IdlePath /\ IdleShell /\ IdleHakd /\ IdleFormat

Running(command, nc) ==
    /\ result = <<>>
    /\ args.command = command
    /\ args.net_command = nc

\* main returns (or an exception leaves it): the trace and the result are set
Done(m) ==
    /\ trace' = m.trace
    /\ result' = Exit(m)
    /\ UNCHANGED <<args, ctx, registry, os_env, path_execs, varsPick, varsPath, varsShell, hakd, fmt>>

MainInfo ==
    /\ Running("info", "")
    /\ LET r == find_tool(registry, args.tool)
           m == Lookup(Start, r)
       IN  Done(Finish(IF r.exc = "none" THEN info_tool(m, r.value, ctx, path_execs) ELSE m,
                       TRUE))

MainInstall ==
    /\ Running("install", "")
    /\ \E outcome \in SpawnOutcomes :
          LET r == find_tool(registry, args.tool)
              m == Lookup(Start, r)
          IN  Done(Finish(IF r.exc = "none"
                          THEN install_tool(m, r.value, ctx, os_env, outcome) ELSE m,
                          FALSE))

MainUpdate ==
    /\ Running("update", "")
    /\ \E outcome \in SpawnOutcomes :
          LET r == find_tool(registry, args.tool)
              m == Lookup(Start, r)
          IN  Done(Finish(IF r.exc = "none"
                          THEN update_tool(m, r.value, ctx, os_env, outcome) ELSE m,
                          FALSE))

MainVerify ==
    /\ Running("verify", "")
    /\ \E outcome \in SpawnOutcomes :
          LET r == find_tool(registry, args.tool)
              m == Lookup(Start, r)
          IN  Done(Finish(IF r.exc = "none"
                          THEN verify_tool(m, r.value, ctx, path_execs, outcome) ELSE m,
                          FALSE))

MainNetPing ==
    /\ Running("net", "ping")
    /\ \E outcome \in SpawnOutcomes :
          Done(Finish(net_ping(Start, args.host, ctx, outcome), FALSE))

MainNetTrace ==
    /\ Running("net", "trace")
    /\ \E outcome \in SpawnOutcomes :
          Done(Finish(net_trace(Start, args.host, ctx, path_execs, outcome), FALSE))

MainNetDnsTest ==
    /\ Running("net", "dns-test")
    /\ \E outcome \in SpawnOutcomes :
          Done(Finish(net_dns_test(Start, args.host, ctx, path_execs, outcome), FALSE))

MainNetSpeed ==
    /\ Running("net", "speed")
    /\ \E outcome \in SpawnOutcomes :
          Done(Finish(net_speed(Start, ctx, path_execs, outcome), FALSE))

MainNetFlushDns ==
    /\ Running("net", "flush-dns")
    /\ \E answer \in Answers, o1, o2, o3 \in SpawnOutcomes :
          Done(Finish(net_flush_dns(Start, ctx, path_execs, answer, o1, o2, o3), FALSE))

MainNetRestartNetwork ==
    /\ Running("net", "restart-network")
    /\ \E answer \in Answers, o1, o2 \in SpawnOutcomes :
          Done(Finish(net_restart_network(Start, ctx, os_env, path_execs, answer, o1, o2),
                      FALSE))

MainNetMtuTest ==
    /\ Running("net", "mtu-test")
    /\ \E answer \in Answers, outcomes \in [1..Len(MtuSizes) -> SpawnOutcomes] :
          Done(Finish(net_mtu_test(Start, args.host, ctx, answer, outcomes), FALSE))

Next ==
    \/ MainInfo
    \/ MainInstall
    \/ MainUpdate
    \/ MainVerify
    \/ MainNetPing
    \/ MainNetTrace
    \/ MainNetDnsTest
    \/ MainNetSpeed
    \/ MainNetFlushDns
    \/ MainNetRestartNetwork
    \/ MainNetMtuTest

Spec == InitMain /\ [][Next]_vars

----------------------------------------------------------------------------
(* C1, C6, C7, C9, C10 *)

Finished == result # <<>>

Steps == 1..Len(trace)

\* processes spawned, launches that failed, runner calls that ended
Spawns == {i \in Steps : trace[i].ev = "spawn"}
FailedLaunches == {i \in Steps : trace[i].ev = "spawn_failed"}
Interrupts == {i \in Steps : trace[i].ev = "interrupt"}
RunnerEnds ==
    {i \in Steps : /\ trace[i].ev \in {"return", "raise"}
                   /\ trace[i].what \in {"run_command", "run_logged_command"}}

ReturnedValue(v) == result = <<[exc |-> "none", ret |-> v]>>

\* C1: with dry_run set, every run_command and run_logged_command call
\* returns 0 and no subprocess is spawned, whatever verbose and explain are.
C1_DryRunReturnsZero ==
    (Finished /\ ctx.dry_run) =>
        /\ Spawns = {} /\ FailedLaunches = {}
        /\ \A i \in RunnerEnds : trace[i].ev = "return" /\ trace[i].code = 0

\* The part of C1 the code keeps: with dry_run set no subprocess is spawned
\* and a runner call that returns, returns 0.
C1_DryRunNeverSpawns ==
    (Finished /\ ctx.dry_run) =>
        /\ Spawns = {} /\ FailedLaunches = {}
        /\ \A i \in RunnerEnds : trace[i].ev = "return" => trace[i].code = 0

RegistryNames == {registry[i].name : i \in 1..Len(registry)}

\* C6: find_tool returns a record with the requested name (the first one in
\* the registry) or raises the unknown-tool error, never a record with
\* another name; main for install, update, verify or info with a name absent
\* from the registry returns 1 after an "Unknown tool" error message and
\* spawns no process.
C6_UnknownTool ==
    /\ \A n \in ToolNames \cup {"ghost"} :
          LET r == find_tool(registry, n)
              at == {i \in 1..Len(registry) : registry[i].name = n}
          IN  IF at = {}
              THEN r.exc = "ToolboxError" /\ r.value[1] = "Unknown tool:"
              ELSE /\ r.exc = "none"
                   /\ r.value.name = n
                   /\ \E i \in at : r.value = registry[i] /\ \A j \in at : i <= j
    /\ (Finished /\ args.command \in RegistryCommands /\ args.tool \notin RegistryNames) =>
          /\ ReturnedValue(1)
          /\ \E i \in Steps : /\ trace[i].ev = "log" /\ trace[i].what = "error"
                              /\ trace[i].text = <<"Unknown tool:", " ", args.tool>>
          /\ Spawns = {} /\ FailedLaunches = {} /\ RunnerEnds = {}

\* C6 witness: install of a name absent from a registry of two tools has
\* returned, without dry-run.
C6_Witness ==
    /\ Finished
    /\ args.command = "install"
    /\ Len(registry) = 2
    /\ args.tool \notin RegistryNames
    /\ ~ctx.dry_run

Destructive ==
    args.command = "net" /\ args.net_command \in {"flush-dns", "restart-network"}

Confirms == {i \in Steps : trace[i].ev = "confirm"}

\* prompts answered with a line that is "yes" once stripped and lower-cased
Consents ==
    {i \in Confirms : trace[i].what = "line" /\ lower(strip(trace[i].text)) = <<"yes">>}

\* C7: in net flush-dns and net restart-network no command is run (and none is
\* handed to the runner, dry-run included) unless the operator has consented
\* at the confirmation prompt earlier in the invocation; after any other
\* answer or end of input the subcommand returns 1 and runs no command.
C7_ConfirmedFirst ==
    (Finished /\ Destructive) =>
        /\ \A i \in Spawns \cup FailedLaunches \cup RunnerEnds :
              \E j \in Consents : j < i
        /\ Confirms \ Consents # {} =>
              /\ ReturnedValue(1)
              /\ Spawns = {} /\ FailedLaunches = {} /\ RunnerEnds = {}

\* C7 witness: flush-dns has run its three commands after a consent that is
\* not the bare word.
C7_Witness ==
    /\ Finished
    /\ args.net_command = "flush-dns"
    /\ Cardinality(Spawns) = 3
    /\ \E j \in Consents : trace[j].text # <<"yes">>

\* C7: a declined flush-dns under --dry-run has returned 1
C7_DeclinedDryRun ==
    /\ Finished /\ Destructive /\ ctx.dry_run
    /\ Confirms \ Consents # {}
    /\ ReturnedValue(1)

\* the candidate lists of the subcommands that pick a tool
CandidatesOf(nc, host) ==
    CASE nc = "trace" -> TraceCandidates(host)
      [] nc = "dns-test" -> DnsCandidates(host)
      [] nc = "speed" -> SpeedCandidates
      [] nc = "flush-dns" -> FlushCandidates

NoToolFound ==
    /\ args.command = "net"
    /\ args.net_command \in {"trace", "dns-test", "speed", "flush-dns"}
    /\ LET cands == CandidatesOf(args.net_command, args.host)
       IN  \A i \in 1..Len(cands) : LeadingToken(cands[i]) \notin path_execs

\* C9: net trace, dns-test, speed and flush-dns, when no candidate executable
\* resolves on PATH, log a warning and return 1: nothing else happens (no
\* process is spawned, no prompt is shown, no error is raised).
C9_MissingToolWarns ==
    (Finished /\ NoToolFound) =>
        /\ ReturnedValue(1)
        /\ Len(trace) = 1
        /\ trace[1].ev = "log" /\ trace[1].what = "warn"

\* C9 witness: flush-dns without resolvectl and systemd-resolve has returned,
\* without dry-run.
C9_Witness ==
    /\ Finished /\ NoToolFound
    /\ args.net_command = "flush-dns"
    /\ ~ctx.dry_run

\* the runner call that spawned a process returned that process's status
RunnerForwards(i) ==
    /\ i + 1 \in Steps
    /\ trace[i + 1].ev = "return"
    /\ trace[i + 1].what = trace[i].what
    /\ trace[i + 1].code = trace[i].code

NthSpawn(n) == CHOOSE i \in Spawns : Cardinality({j \in Spawns : j < i}) = n - 1

\* the spawned command whose status main returns: the flush command (the
\* second of three) for flush-dns, the last command spawned otherwise
Decisive ==
    IF args.net_command = "flush-dns" THEN NthSpawn(2)
    ELSE NthSpawn(Cardinality(Spawns))

\* C10 as stated: without dry-run (with every launch succeeding and no
\* operator interrupt) the
\* status of every spawned command is the result of the runner call, and no
\* spawned command's non-zero status is replaced in the code main returns.
C10_EveryStatusForwarded ==
    (Finished /\ ~ctx.dry_run /\ FailedLaunches = {} /\ Interrupts = {}) =>
        \A i \in Spawns :
            /\ RunnerForwards(i)
            /\ result[1].exc = "none"
            /\ trace[i].code # 0 => result[1].ret = trace[i].code

\* C10 amended: without dry-run the runner returns the status of the process
\* it spawned unchanged, as a normal return value; and when every launch
\* succeeds and the operator does not interrupt, main returns unchanged the
\* status of the last command spawned, or for flush-dns the status of the
\* flush command.
C10_DecisiveStatusForwarded ==
    (Finished /\ ~ctx.dry_run /\ FailedLaunches = {} /\ Interrupts = {} /\ Spawns # {}) =>
        /\ \A i \in Spawns : RunnerForwards(i)
        /\ result[1].exc = "none"
        /\ args.net_command = "flush-dns" => Cardinality(Spawns) = 3
        /\ result[1].ret = trace[Decisive].code

\* C10 witness: flush-dns ran three commands with three different statuses
\* and main has returned the non-zero status of the flush command.
C10_Witness ==
    /\ Finished
    /\ args.net_command = "flush-dns"
    /\ Cardinality(Spawns) = 3
    /\ Cardinality({trace[i].code : i \in Spawns}) = 3
    /\ result[1].ret # 0
    /\ result[1].ret = trace[NthSpawn(2)].code

----------------------------------------------------------------------------
(* format_command on templates of every shape *)

\* The tokens of a template: braces, the placeholder name, other text
TemplateTokens == {"{", "}", "prefix", "x"}

Templates == BoundedSeq(TemplateTokens, MaxTemplateLen)

\* the Context format_command is given: only its prefix is used
FormatContext == [verbose |-> FALSE, dry_run |-> FALSE, explain |-> FALSE, prefix |-> Prefix]

InitFormat ==
    /\ \E t \in Templates : fmt = [template |-> t, first |-> <<>>, second |-> <<>>]
    /\ path_execs = {}
    /\ IdlePick /\ IdlePath /\ IdleShell /\ IdleMain /\ IdleHakd

\* format_command(template, ctx)
Render ==
    /\ fmt.first = <<>>
    /\ fmt' = [fmt EXCEPT !.first = <<format_command(fmt.template, FormatContext)>>]
    /\ UNCHANGED <<path_execs, varsPick, varsPath, varsShell, varsMain, hakd>>

\* format_command(rendered, ctx), on the string the first call returned
Rerender ==
    /\ fmt.first # <<>> /\ fmt.first[1].exc = "none"
    /\ fmt.second = <<>>
    /\ fmt' = [fmt EXCEPT !.second = <<format_command(fmt.first[1].value, FormatContext)>>]
    /\ UNCHANGED <<path_execs, varsPick, varsPath, varsShell, varsMain, hakd>>

NextFormat == Render \/ Rerender

SpecFormat == InitFormat /\ [][NextFormat]_vars

----------------------------------------------------------------------------
(* C13 *)

\* a template with every {prefix} placeholder replaced by the prefix and
\* every other token, braces included, left as it is
RECURSIVE Substituted(_, _)
Substituted(t, prefix) ==
    IF t = <<>> THEN <<>>
    ELSE IF Len(t) >= 3 /\ SubSeq(t, 1, 3) = <<"{", "prefix", "}">>
    THEN prefix \o Substituted(SubSeq(t, 4, Len(t)), prefix)
    ELSE <<Head(t)>> \o Substituted(Tail(t), prefix)

\* the braces of a template are exactly those of its {prefix} placeholders
OnlyPlaceholders(t) ==
    \A i \in 1..Len(t) :
        /\ t[i] = "{" => i + 2 <= Len(t) /\ t[i + 1] = "prefix" /\ t[i + 2] = "}"
        /\ t[i] = "}" => i >= 3 /\ t[i - 1] = "prefix" /\ t[i - 2] = "{"

\* C13: format_command returns a string for every template, which is the
\* template with its {prefix} placeholders replaced and everything else,
\* other braces included, unchanged (so a template without the placeholder is
\* returned as it is); rendering the result again returns it unchanged.
C13_TotalPassThrough ==
    /\ fmt.first # <<>> =>
          /\ fmt.first[1].exc = "none"
          /\ fmt.first[1].value = Substituted(fmt.template, Prefix)
    /\ fmt.second # <<>> => fmt.second = fmt.first

\* what the code keeps of C13: a template whose only braces are those of
\* {prefix} placeholders is rendered by substitution, and rendering the
\* result again returns it unchanged
FormatPlainTemplates ==
    OnlyPlaceholders(fmt.template) =>
        /\ fmt.first # <<>> => fmt.first = <<Ret(Substituted(fmt.template, Prefix))>>
        /\ fmt.second # <<>> => fmt.second = fmt.first

\* rendering twice is not the identity: doubled braces rendered to single
\* ones, rendered again to something else
FormatTwiceDiffers ==
    /\ fmt.second # <<>>
    /\ fmt.second # fmt.first

----------------------------------------------------------------------------
(* C12: the toolbox side *)

\* C12: an invocation of the toolbox main that the operator interrupted, while
\* it waited on a spawned command or on a confirmation prompt, has ended with
\* exit status 0 and no uncaught exception.
C12_InterruptExitsZero ==
    (Finished /\ Interrupts # {}) => ReturnedValue(0)

\* an interrupted invocation of the toolbox main always ends with
\* KeyboardInterrupt uncaught
ToolboxInterruptUncaught ==
    (Finished /\ Interrupts # {}) => result[1].exc = "KeyboardInterrupt"

----------------------------------------------------------------------------
(* hakd: the interactive menu *)

\* The registry hakd loads: a list of entries with a name
HakdEntry(n) == [name |-> n]
HakdRegistries == BoundedSeq({HakdEntry(n) : n \in ToolNames}, MaxEntries)

\* The lines typed at the menu prompt
MenuAnswers ==
    {Line(<<>>), Line(<<" ">>), Line(<<"q">>), Line(<<"h">>), Line(<<"t">>),
     Line(<<"i">>), Line(<<"p">>), Line(<<"d">>), Line(<<"u">>),
     Line(<<" ", "U", " ">>), Line(<<"s">>), Line(<<"x">>), EndOfInput}

\* The lines typed at the other prompts
HakdAnswers == {Line(<<>>), Line(<<"y">>), Line(<<" ", "Y">>), Line(<<"n">>), EndOfInput}

\* What hakd has done since the last menu choice, in order
Did(h, e) == [h EXCEPT !.log = Append(@, e)]

\* hakd's main returns, or an exception leaves it
HakdExit(h, exc, cause) ==
    [h EXCEPT !.pc = "exited", !.exit = <<[exc |-> exc, ret |-> 0, cause |-> cause]>>]

\* input() raising EOFError: nothing in hakd catches it
HakdEOF(h) == HakdExit(h, "EOFError", "EOFError")

\* run_toolbox: the toolbox is spawned with args and its exit status returned
run_toolbox(h, argv, index, code) ==
    Did(h, [what |-> "run_toolbox", args |-> argv, index |-> index, code |-> code])

\* mutant: the loop stops at the first update that fails
stop_at_failure(i, n, code) == IF code = 0 THEN i + 1 ELSE n + 1

\* for tool in registry: the next iteration, whatever run_toolbox returned
next_tool(i, n, code) == i + 1

\* update_all: one iteration of the loop over the registry
update_all(h, code) ==
    LET tool == h.registry[h.i]
        h1 == run_toolbox(h, <<"--verbose", "--explain", "update", tool.name>>, h.i, code)
    IN  [h1 EXCEPT !.i = next_tool(h.i, Len(h.registry), code)]

\* self_update up to its first wait: skipped without a .git directory, else
\* git status is run
self_update(h, git_dir) ==
    LET h1 == Did(h, [what |-> "self_update", args |-> <<>>, index |-> 0, code |-> 0])
    IN  [h1 EXCEPT !.pc = IF git_dir THEN "git_status" ELSE "pause"]

\* prompt_loop: the menu choice is read and dispatched
prompt_loop(h, answer) ==
    IF answer.kind = "EOF" THEN HakdEOF(h)
    ELSE LET choice == lower(strip(answer.text))
             h1 == [h EXCEPT !.choice = choice, !.log = <<>>, !.rounds = @ + 1]
         IN  IF choice = <<>> \/ choice = <<"h">> THEN h
             ELSE IF choice = <<"q">> THEN HakdExit(h1, "none", "quit")
             ELSE IF choice = <<"i">> THEN [h1 EXCEPT !.pc = "tool_name"]
             ELSE IF choice = <<"s">> THEN [h1 EXCEPT !.pc = "search_query"]
             ELSE IF choice = <<"d">> THEN [h1 EXCEPT !.pc = "doctor"]
             ELSE IF choice = <<"u">> THEN [h1 EXCEPT !.pc = "update_all", !.i = 1]
             ELSE [h1 EXCEPT !.pc = "pause"]

InitHakd ==
    /\ \E r \in HakdRegistries :
          hakd = [pc |-> "menu", registry |-> r, i |-> 1, choice |-> <<>>, log |-> <<>>,
                  rounds |-> 0, exit |-> <<>>]
    /\ path_execs = {}
    /\ IdlePick /\ IdlePath /\ IdleShell /\ IdleMain /\ IdleFormat

HakdStep(h) ==
    /\ hakd' = h
    /\ UNCHANGED <<path_execs, varsPick, varsPath, varsShell, varsMain, fmt>>

\* choice = input("Select an option: ")
HakdMenu ==
    /\ hakd.pc = "menu"
    /\ \E answer \in MenuAnswers :
          /\ hakd.rounds < MaxRounds \/ answer = Line(<<"q">>)
          /\ HakdStep(prompt_loop(hakd, answer))

\* name = input("Tool name: "); info_tool
HakdToolName ==
    /\ hakd.pc = "tool_name"
    /\ \E answer \in HakdAnswers :
          HakdStep(IF answer.kind = "EOF" THEN HakdEOF(hakd) ELSE [hakd EXCEPT !.pc = "pause"])

\* query = input("Search query: "); search_tools
HakdSearchQuery ==
    /\ hakd.pc = "search_query"
    /\ \E answer \in HakdAnswers :
          HakdStep(IF answer.kind = "EOF" THEN HakdEOF(hakd) ELSE [hakd EXCEPT !.pc = "pause"])

\* doctor: run_toolbox(["doctor"]), its status ignored
HakdDoctor ==
    /\ hakd.pc = "doctor"
    /\ \E code \in ExitCodes :
          HakdStep([run_toolbox(hakd, <<"doctor">>, 0, code) EXCEPT !.pc = "pause"])

\* update_all: the update of the next tool
HakdUpdateTool ==
    /\ hakd.pc = "update_all"
    /\ hakd.i <= Len(hakd.registry)
    /\ \E code \in ExitCodes : HakdStep(update_all(hakd, code))

\* update_all: the loop is over, self_update is called
HakdSelfUpdate ==
    /\ hakd.pc = "update_all"
    /\ hakd.i > Len(hakd.registry)
    /\ \E git_dir \in BOOLEAN : HakdStep(self_update(hakd, git_dir))

\* self_update: git status --porcelain has finished
HakdGitStatus ==
    /\ hakd.pc = "git_status"
    /\ \E clean \in BOOLEAN :
          HakdStep([hakd EXCEPT !.pc = IF clean THEN "confirm_pull" ELSE "pause"])

\* self_update: response = input("... [y/N] ")
HakdConfirmPull ==
    /\ hakd.pc = "confirm_pull"
    /\ \E answer \in HakdAnswers :
          HakdStep(IF answer.kind = "EOF" THEN HakdEOF(hakd)
                   ELSE IF lower(strip(answer.text)) = <<"y">>
                   THEN [hakd EXCEPT !.pc = "git_pull"]
                   ELSE [hakd EXCEPT !.pc = "pause"])

\* self_update: git pull has finished, its status ignored
HakdGitPull ==
    /\ hakd.pc = "git_pull"
    /\ \E code \in ExitCodes :
          HakdStep([Did(hakd, [what |-> "git_pull", args |-> <<>>, index |-> 0, code |-> code])
                       EXCEPT !.pc = "pause"])

\* input("\nPress Enter to continue...")
HakdPause ==
    /\ hakd.pc = "pause"
    /\ \E answer \in {Line(<<>>), EndOfInput} :
          HakdStep(IF answer.kind = "EOF" THEN HakdEOF(hakd) ELSE [hakd EXCEPT !.pc = "menu"])

\* KeyboardInterrupt raised inside prompt_loop: main catches it and returns 0
HakdInterrupt ==
    /\ hakd.pc # "exited"
    /\ HakdStep(HakdExit(hakd, "none", "KeyboardInterrupt"))

NextHakd ==
    \/ HakdMenu
    \/ HakdToolName
    \/ HakdSearchQuery
    \/ HakdDoctor
    \/ HakdUpdateTool
    \/ HakdSelfUpdate
    \/ HakdGitStatus
    \/ HakdConfirmPull
    \/ HakdGitPull
    \/ HakdPause
    \/ HakdInterrupt

SpecHakd == InitHakd /\ [][NextHakd]_vars

----------------------------------------------------------------------------
(* C11 *)

\* the update-all choice is the one in progress or the last one made
UpdateAllChosen == hakd.choice = <<"u">>

HakdInterrupted == hakd.exit # <<>> /\ hakd.exit[1].cause = "KeyboardInterrupt"

IsUpdateOf(e, j) ==
    /\ e.what = "run_toolbox"
    /\ e.index = j
    /\ e.args = <<"--verbose", "--explain", "update", hakd.registry[j].name>>

\* C11: in an update-all run the j-th thing done is the update of the j-th
\* registry entry, whatever the earlier updates returned (so every entry is
\* attempted in registry order, once, with no retry and no early abort), and
\* self_update is called only as the step after the update of the last entry;
\* unless the operator interrupts, the run leaves the loop only with every
\* entry attempted and self_update called.
C11_UpdateAllOrder ==
    UpdateAllChosen =>
        LET n == Len(hakd.registry)
            L == hakd.log
        IN  /\ \A j \in 1..Len(L) :
                  /\ j <= n => IsUpdateOf(L[j], j)
                  /\ L[j].what = "self_update" <=> j = n + 1
                  /\ L[j].what = "run_toolbox" => j <= n
            /\ hakd.pc = "update_all" => Len(L) = hakd.i - 1 /\ Len(L) <= n
            /\ (hakd.pc # "update_all" /\ ~HakdInterrupted) => Len(L) >= n + 1

\* C11 witness: the update of the first of three entries failed, the two
\* others were attempted after it, and self_update has been called.
C11_Witness ==
    /\ UpdateAllChosen
    /\ Len(hakd.registry) = 3
    /\ Len(hakd.log) >= 4
    /\ hakd.log[1].code # 0
    /\ hakd.log[2].code = 0
    /\ hakd.log[4].what = "self_update"

\* the menu side of C12: hakd interrupted at any prompt or while it waits on a
\* child process has ended with exit status 0 and no exception
HakdInterruptExitsZero ==
    HakdInterrupted => hakd.pc = "exited" /\ hakd.exit[1].exc = "none" /\ hakd.exit[1].ret = 0

====
